---- MODULE Spec2Model ----
(***************************************************************************)
(* Interview progression of komyra-ai: the session record kept by the      *)
(* caller, the next-question endpoint in its two implementations           *)
(* (nextQuestionAI behind the thin route, and the route-local              *)
(* generateNextQuestion), the oracle's reply as an untrusted input, and    *)
(* the caller's merge of the returned state.                               *)
(***************************************************************************)
EXTENDS Integers, Sequences, FiniteSets, TLC

VARIABLES impl, setup, state, currentQuestion, now, req, prev, prompt, resp,
          endedByOracle, isLoadingQuestion, pending, isInitializing,
          evalReq, evalPrompted, evalResp,
          asked, stored, calls, profileReq, profileResp

(* the page's request bookkeeping, one evaluation request, and one         *)
(* profile-analysis request                                                *)
uiVars == <<isLoadingQuestion, pending, isInitializing>>
evalVars == <<evalReq, evalPrompted, evalResp>>
profileVars == <<profileReq, profileResp>>

vars ==
  <<impl, setup, state, currentQuestion, now, req, prev, prompt, resp,
    endedByOracle, isLoadingQuestion, pending, isInitializing,
    evalReq, evalPrompted, evalResp,
    asked, stored, calls, profileReq, profileResp>>

(* ------------------------------ bounds --------------------------------- *)

MaxQ == 2
MaxFU == 2
MaxClock == 1
MaxHist == 2
MaxChain == 3
MaxPending == 2
MaxTurns == 2
MaxLoads == 4

(* --------------------------- JavaScript values ------------------------- *)
(* A string is a sequence of chunks; the chunk " " is white space.         *)

JStr(s) == [t |-> "string", s |-> s]
JNull == [t |-> "null", s |-> <<>>]
JUndef == [t |-> "undefined", s |-> <<>>]
JNum == [t |-> "number", s |-> <<"42">>]
JList(items) == [t |-> "array", a |-> items]

Truthy(v) ==
  CASE v.t = "string" -> v.s # <<>>
    [] v.t = "number" -> v.s # <<"0">>
    [] OTHER -> FALSE

RECURSIVE TrimStart(_)
TrimStart(s) ==
  IF s # <<>> /\ Head(s) = " " THEN TrimStart(Tail(s)) ELSE s

RECURSIVE TrimEnd(_)
TrimEnd(s) ==
  IF s # <<>> /\ s[Len(s)] = " " THEN TrimEnd(SubSeq(s, 1, Len(s) - 1)) ELSE s

Trim(s) == TrimEnd(TrimStart(s))

(* ------------------------------ question ids --------------------------- *)
(* `${kind}-${index}-${Date.now()}`, the undefined id of a fresh session   *)
(* and the empty string of a response without a question.                  *)

MintId(kind, index, time) == [kind |-> kind, index |-> index, time |-> time]
UndefId == [kind |-> "undefined", index |-> 0, time |-> 0]
EmptyId == [kind |-> "", index |-> 0, time |-> 0]
TruthyId(id) == id # UndefId /\ id # EmptyId

(* mainQuestionIndex: undefined *)
NoIndex == -1

(* ------------------------------ session -------------------------------- *)

createInitialInterviewState(maxQuestions, maxFollowups) ==
  [ current_question_index |-> 0,
    question_type          |-> "main",
    followup_count         |-> 0,
    max_questions          |-> maxQuestions,
    max_followups          |-> maxFollowups,
    interview_phase        |-> "initializing",
    current_question_id    |-> UndefId,
    conversation_history   |-> <<>> ]

(* mutant: the new entry is put in front *)
addAnswerToState_Prepend(s, question, answer, questionId, time) ==
  LET answerRecord ==
        [ question          |-> question,
          answer            |-> answer,
          timestamp         |-> time,
          questionId        |-> IF TruthyId(questionId) THEN questionId
                                ELSE s.current_question_id,
          questionType      |-> s.question_type,
          mainQuestionIndex |-> IF s.question_type = "followup"
                                THEN s.current_question_index ELSE NoIndex ]
  IN [s EXCEPT !.conversation_history = <<answerRecord>> \o @]

addAnswerToState(s, question, answer, questionId, time) ==
  LET answerRecord ==
        [ question          |-> question,
          answer            |-> answer,
          timestamp         |-> time,
          questionId        |-> IF TruthyId(questionId) THEN questionId
                                ELSE s.current_question_id,
          questionType      |-> s.question_type,
          mainQuestionIndex |-> IF s.question_type = "followup"
                                THEN s.current_question_index ELSE NoIndex ]
  IN [s EXCEPT !.conversation_history = Append(@, answerRecord)]

(* the exported twin of addAnswerToState: questionId ?? current id *)
recordAnswer(s, question, answer, questionId, time) ==
  LET entry ==
        [ question          |-> question,
          answer            |-> answer,
          timestamp         |-> time,
          questionId        |-> IF questionId # UndefId THEN questionId
                                ELSE s.current_question_id,
          questionType      |-> s.question_type,
          mainQuestionIndex |-> IF s.question_type = "followup"
                                THEN s.current_question_index ELSE NoIndex ]
  IN [s EXCEPT !.conversation_history = Append(@, entry)]

(* the exported twin of updateStateFromResponse *)
syncStateFromServer(local, server) ==
  [server EXCEPT !.conversation_history = local.conversation_history]

updateStateFromResponse(currentState, serverState) ==
  IF serverState.interview_phase = "completed"
       /\ currentState.interview_phase # "completed"
  THEN [serverState EXCEPT !.interview_phase = "completed"]
  ELSE [serverState EXCEPT
          !.conversation_history = currentState.conversation_history]

(* ------------------------------- objects ------------------------------ *)
(* A session is an object with an identity: a parameter, a const or the    *)
(* closure of a handler holds a reference into a store of objects. An      *)
(* object literal, with or without a spread, makes a new object and leaves *)
(* the objects it reads alone; an assignment or a push writes the object   *)
(* it names, for every holder of a reference to it.                        *)
NewObject(store, value) ==
  [store |-> Append(store, value), ref |-> Len(store) + 1]

(* mutant: the entry is pushed onto the history of the object given, and   *)
(* that object is returned                                                 *)
addAnswerToStateIn_Push(store, ref, question, answer, questionId, time) ==
  [ store |-> [store EXCEPT ![ref] = addAnswerToState(@, question, answer,
                                                      questionId, time)],
    ref   |-> ref ]

(* return { ...state, conversation_history: [...state.conversation_history, *)
(* answerRecord] } for the object at ref                                   *)
addAnswerToStateIn(store, ref, question, answer, questionId, time) ==
  NewObject(store,
            addAnswerToState(store[ref], question, answer, questionId, time))

recordAnswerIn(store, ref, question, answer, questionId, time) ==
  NewObject(store,
            recordAnswer(store[ref], question, answer, questionId, time))

(* ------------------------------ the oracle ----------------------------- *)
(* What generateContent gives back: it throws, or returns text.  The text  *)
(* holds no {...} at all and is then prose ("nojson"), a JSON value such   *)
(* as 42, true, "text" or [1,2] ("scalar") or the JSON value null          *)
(* ("null"); or its {...} is not JSON ("badjson"); or it holds one JSON    *)
(* object with its "question" field (undefined when the field is missing). *)

QuestionValues ==
  { JUndef, JNull, JNum }
    \cup { JStr(s) : s \in { <<>>, <<" ">>, <<"Q", " ">> } }

Reply(kind, question) == [kind |-> kind, question |-> question]
Replies ==
  { Reply(k, JUndef) : k \in {"throw", "nojson", "badjson", "scalar", "null"} }
    \cup { Reply("json", q) : q \in QuestionValues }

(* JSON.parse: the parsed value, or a SyntaxError.  A parsed number,       *)
(* boolean, string or array has no "question" (undefined); the parsed      *)
(* value null has no properties at all, and reading one throws.            *)
JsonParse(raw) ==
  [ ok       |-> raw.kind \in {"json", "scalar", "null"},
    isNull   |-> raw.kind = "null",
    question |-> raw.question ]

(* nextQuestion.ai.ts: text.match(/\{[\s\S]*\}/), "{}" without a match *)
extractJson(reply) ==
  IF reply.kind \in {"nojson", "scalar", "null"}
  THEN Reply("json", JUndef) ELSE reply

(* route-local: fences stripped, the {...} match taken when there is one,  *)
(* the text itself otherwise                                               *)
cleanJsonResponse(reply) == reply

(* ------------------------------ prompts -------------------------------- *)

buildFollowUpPrompt(lastAnswer) ==
  [kind |-> "followup", lastAnswer |-> lastAnswer, questionNumber |-> 0]

buildMainQuestionPrompt(s) ==
  [kind |-> "main", lastAnswer |-> JUndef,
   questionNumber |-> s.current_question_index + 1]

NoPrompt == [kind |-> "none", lastAnswer |-> JUndef, questionNumber |-> 0]

(* ------------------- nextQuestion.ai.ts (library) ---------------------- *)

Template(roleTitle, noun) ==
  JStr(<<"Tell me about your experience relevant to this ">>
         \o roleTitle.s \o <<" ", noun>>)

Response(question, id, type, updated, complete) ==
  [ status             |-> 200,
    question           |-> question,
    question_id        |-> id,
    question_type      |-> type,
    updated_state      |-> updated,
    interview_complete |-> complete ]

(* mutant: the budget is not looked at *)
shouldAskFollowUp_NoBudget(s, last_answer) ==
  /\ Truthy(last_answer)
  /\ s.question_type = "main"

(* mutant: the type of the question just answered is not looked at *)
shouldAskFollowUp_AnyType(s, last_answer) ==
  /\ Truthy(last_answer)
  /\ s.followup_count < s.max_followups

shouldAskFollowUp(s, last_answer) ==
  /\ Truthy(last_answer)
  /\ s.question_type = "main"
  /\ s.followup_count < s.max_followups

(* mutant: the follow-up is not counted *)
followUpBranch_Uncounted(s, time) ==
  [s EXCEPT
     !.question_type = "followup",
     !.current_question_id = MintId("followup", s.current_question_index, time)]

(* applyStateTransition, if (isFollowUp) *)
followUpBranch(s, time) ==
  [s EXCEPT
     !.followup_count = @ + 1,
     !.question_type = "followup",
     !.current_question_id = MintId("followup", s.current_question_index, time)]

(* mutant: followup_count survives the move to the next main question *)
mainBranch_NoReset(s, time) ==
  [s EXCEPT
     !.current_question_index = @ + 1,
     !.question_type = "main",
     !.current_question_id = MintId("main", s.current_question_index + 1, time)]

(* applyStateTransition, else *)
mainBranch(s, time) ==
  [s EXCEPT
     !.current_question_index = @ + 1,
     !.followup_count = 0,
     !.question_type = "main",
     !.current_question_id = MintId("main", s.current_question_index + 1, time)]

(* mutant: the limit is reached one question late *)
limitReached_Late(updated) ==
  /\ updated.current_question_index > updated.max_questions
  /\ updated.question_type = "main"

(* applyStateTransition, const completed *)
limitReached(updated) ==
  /\ updated.current_question_index >= updated.max_questions
  /\ updated.question_type = "main"

applyStateTransition(s, question, isFollowUp, time) ==
  IF ~Truthy(question)
  THEN Response(JNull, EmptyId, "main",
                [s EXCEPT !.interview_phase = "completed"], TRUE)
  ELSE
    LET moved == IF isFollowUp THEN followUpBranch(s, time)
                 ELSE mainBranch(s, time)
        completed == limitReached(moved)
        updated ==
          [moved EXCEPT !.interview_phase =
                          IF completed THEN "completed" ELSE "in_progress"]
    IN Response(question, updated.current_question_id,
                updated.question_type, updated, completed)

(* mutant: the fallback never reports completion *)
fallbackNextQuestion_NeverComplete(s, roleTitle, time) ==
  LET completed == s.current_question_index >= s.max_questions
  IN Response(IF completed THEN JNull ELSE Template(roleTitle, "role."),
              MintId("fallback", 0, time),
              "main",
              [s EXCEPT !.interview_phase =
                          IF completed THEN "completed" ELSE "in_progress"],
              FALSE)

fallbackNextQuestion(s, roleTitle, time) ==
  LET completed == s.current_question_index >= s.max_questions
  IN Response(IF completed THEN JNull ELSE Template(roleTitle, "role."),
              MintId("fallback", 0, time),
              "main",
              [s EXCEPT !.interview_phase =
                          IF completed THEN "completed" ELSE "in_progress"],
              completed)

nextQuestionPrompt(data) ==
  IF shouldAskFollowUp(data.interview_state, data.last_answer)
  THEN buildFollowUpPrompt(data.last_answer)
  ELSE buildMainQuestionPrompt(data.interview_state)

nextQuestionAI(data, reply, time) ==
  LET s == data.interview_state
      raw == extractJson(reply)
      parsed == JsonParse(raw)
      question ==
        IF parsed.question.t = "string" /\ Truthy(JStr(Trim(parsed.question.s)))
        THEN JStr(Trim(parsed.question.s))
        ELSE JNull
  IN IF reply.kind = "throw" \/ ~parsed.ok
     THEN fallbackNextQuestion(s, data.roleTitle, time)
     ELSE applyStateTransition(s, question,
                               shouldAskFollowUp(s, data.last_answer), time)

(* ------------- route-local generateNextQuestion (older route) ---------- *)

routeShouldAskFollowUp(s, last_answer) ==
  /\ Truthy(last_answer)
  /\ s.followup_count < s.max_followups
  /\ s.question_type = "main"

routePrompt(data) ==
  IF routeShouldAskFollowUp(data.interview_state, data.last_answer)
  THEN buildFollowUpPrompt(data.last_answer)
  ELSE buildMainQuestionPrompt(data.interview_state)

routeFallback(s, roleTitle, time) ==
  LET updatedState ==
        [s EXCEPT !.interview_phase =
                    IF s.current_question_index >= s.max_questions
                    THEN "completed" ELSE "in_progress"]
  IN Response(IF updatedState.current_question_index < updatedState.max_questions
              THEN Template(roleTitle, "position.") ELSE JNull,
              MintId("fallback", 0, time),
              "main",
              updatedState,
              updatedState.interview_phase = "completed")

generateNextQuestion(data, reply, time) ==
  LET s == data.interview_state
      questionType ==
        IF routeShouldAskFollowUp(s, data.last_answer) THEN "followup" ELSE "main"
      parsed == JsonParse(cleanJsonResponse(reply))
      question == IF Truthy(parsed.question) THEN parsed.question ELSE JNull
      moved ==
        IF questionType = "followup" /\ Truthy(question)
        THEN [s EXCEPT
                !.followup_count = @ + 1,
                !.question_type = "followup",
                !.current_question_id =
                   MintId("followup", s.current_question_index, time)]
        ELSE IF questionType = "main" /\ Truthy(question)
        THEN [s EXCEPT
                !.current_question_index = @ + 1,
                !.followup_count = 0,
                !.question_type = "main",
                !.current_question_id =
                   MintId("main", s.current_question_index + 1, time)]
        ELSE s
      isComplete ==
        \/ ~Truthy(question)
        \/ /\ questionType = "main"
           /\ moved.current_question_index >= moved.max_questions
      updatedState ==
        [moved EXCEPT !.interview_phase =
                        IF isComplete THEN "completed" ELSE "in_progress"]
  IN IF reply.kind = "throw" \/ ~parsed.ok \/ parsed.isNull
     THEN routeFallback(s, data.roleTitle, time)
     ELSE Response(question,
                   IF TruthyId(updatedState.current_question_id)
                   THEN updatedState.current_question_id ELSE EmptyId,
                   questionType, updatedState, isComplete)

(* ------------------------------ the routes ----------------------------- *)

(* mutant: only the job description is required *)
MissingFields_JobOnly(body) ==
  \/ ~Truthy(body.jobDescription)
  \/ body.interview_state = JNull

MissingFields(body) ==
  \/ ~Truthy(body.jobDescription)
  \/ ~Truthy(body.resume)
  \/ ~Truthy(body.roleTitle)
  \/ body.interview_state = JNull

BadRequest == [status |-> 400]
ServerError == [status |-> 500]

(* mutant: a completed session is advanced like any other *)
AlreadyComplete_Never(body) == FALSE

AlreadyComplete(body) == body.interview_state.interview_phase = "completed"

(* mutant: the echo reopens the session *)
TerminalEcho_Reopened(body) ==
  Response(JNull, EmptyId, "main",
           [body.interview_state EXCEPT !.interview_phase = "in_progress"],
           TRUE)

TerminalEcho(body) ==
  Response(JNull, EmptyId, "main", body.interview_state, TRUE)

(* POST of the route that delegates to nextQuestionAI *)
PostLib(body, reply, time) ==
  IF MissingFields(body) THEN BadRequest
  ELSE IF AlreadyComplete(body) THEN TerminalEcho(body)
  ELSE nextQuestionAI(body, reply, time)

(* POST of the route with its own generateNextQuestion *)
PostRoute(body, reply, time) ==
  IF MissingFields(body) THEN BadRequest
  ELSE IF AlreadyComplete(body) THEN TerminalEcho(body)
  ELSE generateNextQuestion(body, reply, time)

Post(i, body, reply, time) ==
  IF i = "lib" THEN PostLib(body, reply, time) ELSE PostRoute(body, reply, time)

(* The call on the session object at ref. Both implementations begin with  *)
(* const updated = { ...state } and assign to the copy, the fallbacks      *)
(* return { ...state, interview_phase }, the echo of a completed session   *)
(* returns the object it was given, and a rejected call returns no state   *)
(* (ref 0).                                                                *)
(* mutant: the transition is applied to the session object given *)
nextQuestionIn_InPlace(i, store, ref, body, reply, time) ==
  LET response == Post(i, body, reply, time)
  IN IF response.status # 200 THEN [store |-> store, ref |-> 0]
     ELSE [store |-> [store EXCEPT ![ref] = response.updated_state],
           ref   |-> ref]

nextQuestionIn(i, store, ref, body, reply, time) ==
  LET response == Post(i, body, reply, time)
  IN IF response.status # 200 THEN [store |-> store, ref |-> 0]
     ELSE IF AlreadyComplete(body)
     THEN [store |-> store, ref |-> ref]
     ELSE NewObject(store, response.updated_state)

(* the prompt handed to generateContent, none when the oracle is not called *)
PromptSent(i, body) ==
  IF MissingFields(body) \/ AlreadyComplete(body) THEN NoPrompt
  ELSE IF i = "lib" THEN nextQuestionPrompt(body) ELSE routePrompt(body)

(* the decision applied was an absent question: the oracle ended the session *)
OracleEnded(i, body, reply) ==
  /\ ~MissingFields(body)
  /\ ~AlreadyComplete(body)
  /\ IF i = "lib"
     THEN reply.kind \in {"json", "nojson", "scalar", "null"}
          /\ ~(extractJson(reply).question.t = "string"
               /\ Trim(extractJson(reply).question.s) # <<>>)
     ELSE reply.kind \in {"json", "scalar"} /\ ~Truthy(reply.question)

(* ------------------------------ the client ----------------------------- *)

(* the setup saved by the admin page: the three texts, the mode, and the   *)
(* fixed question list of the static mode                                  *)
InterviewSetup(jd, resume, role, dynamic, questions) ==
  [ jobDescription      |-> jd,
    resume              |-> resume,
    roleTitle           |-> role,
    useDynamicQuestions |-> dynamic,
    questions           |-> questions ]

Context(jd, resume, role) == InterviewSetup(jd, resume, role, TRUE, JUndef)
GoodContext == Context(JStr(<<"jd">>), JStr(<<"cv">>), JStr(<<"dev">>))
Contexts ==
  { GoodContext,
    Context(JStr(<<>>), JStr(<<"cv">>), JStr(<<"dev">>)),
    Context(JStr(<<"jd">>), JUndef, JStr(<<"dev">>)),
    Context(JStr(<<"jd">>), JStr(<<"cv">>), JStr(<<>>)) }

(* the setups a page can find saved: the dynamic ones, and static ones     *)
(* with two fixed questions and with none                                  *)
Setups ==
  Contexts
    \cup { InterviewSetup(JStr(<<"jd">>), JStr(<<"cv">>), JStr(<<"dev">>),
                          FALSE, questions) :
             questions \in { JList(<<JStr(<<"Q1">>), JStr(<<"Q2">>)>>),
                             JList(<<>>) } }

(* if (setup.useDynamicQuestions && setup.resume) *)
Dynamic(s) == s.useDynamicQuestions /\ Truthy(s.resume)


LastAnswers == { JUndef, JStr(<<>>), JStr(<<"a">>) }
Answers == { <<"a">> }

Body(ctx, s, last_answer) ==
  [ jobDescription  |-> ctx.jobDescription,
    resume          |-> ctx.resume,
    roleTitle       |-> ctx.roleTitle,
    interview_state |-> s,
    last_answer     |-> last_answer ]

NoReply == Reply("none", JUndef)
NoReq == [sent |-> FALSE, last_answer |-> JUndef, reply |-> NoReply]
NoResp == [status |-> 0]

NoEvalReq == [sent |-> FALSE]

(* question_id and question_type of the response that put the question on *)
(* screen; none before the first question                                  *)
Asked(id, type) == [id |-> id, type |-> type]
NotAsked == Asked(UndefId, "none")

(* sessionStorage 'interviewAnswers' *)
Stored(answers) == [saved |-> TRUE, answers |-> answers]
NothingStored == [saved |-> FALSE, answers |-> <<>>]

NoProfileReq == [sent |-> FALSE]

(* ------------------------------ the caller ----------------------------- *)
(* Any caller of the session controller and of the endpoint: it creates a  *)
(* session with limits of its choice (createInitialInterviewState takes    *)
(* them as parameters), records answers in it, posts it to                 *)
(* /api/next-question with a last answer of its choice, and adopts the     *)
(* state of the response. req, prev, prompt and resp describe the last     *)
(* call made on the session as it stands.                                  *)

Init ==
  /\ impl \in {"lib", "route"}
  /\ setup \in Contexts
  /\ \E mq \in 0..MaxQ, mf \in 0..MaxFU :
        state = createInitialInterviewState(mq, mf)
  /\ currentQuestion = JNull
  /\ now = 0
  /\ req = NoReq
  /\ prev = state
  /\ prompt = NoPrompt
  /\ resp = NoResp
  /\ endedByOracle = FALSE
  /\ isLoadingQuestion = FALSE
  /\ pending = <<>>
  /\ isInitializing = FALSE
  /\ evalReq = NoEvalReq
  /\ evalPrompted = FALSE
  /\ evalResp = NoResp
  /\ asked = NotAsked
  /\ stored = NothingStored
  /\ calls = 0
  /\ profileReq = NoProfileReq
  /\ profileResp = NoResp

(* One call of the endpoint, made with session s and answered at time,     *)
(* and what the caller holding the session current does with the response: *)
(* the route answers (the oracle replies only when the route reaches       *)
(* generateContent), a 200 response is merged into s with                  *)
(* updateStateFromResponse and its question, when it has one, becomes the  *)
(* question to answer; any other response leaves the caller's session      *)
(* alone.                                                                  *)
roundTrip(current, s, last_answer, replies, time) ==
  /\ prev' = s
  /\ prompt' = PromptSent(impl, Body(setup, prev', last_answer))
  /\ \E reply \in IF prompt' = NoPrompt THEN {NoReply} ELSE replies :
       /\ req' = [sent |-> TRUE, last_answer |-> last_answer,
                  reply |-> reply]
       /\ resp' = Post(impl, Body(setup, prev', last_answer), reply, time)
       /\ endedByOracle' =
            (endedByOracle
               \/ OracleEnded(impl, Body(setup, prev', last_answer), reply))
       /\ IF resp'.status = 200
          THEN /\ state' =
                    updateStateFromResponse(prev', resp'.updated_state)
               /\ currentQuestion' =
                    IF Truthy(resp'.question) THEN resp'.question
                    ELSE currentQuestion
               /\ asked' =
                    IF Truthy(resp'.question)
                    THEN Asked(resp'.question_id, resp'.question_type)
                    ELSE asked
          ELSE /\ state' = current
               /\ UNCHANGED <<currentQuestion, asked>>

(* addAnswerToState on the caller's session, for the question last         *)
(* delivered; the session is now another one than the last call was made   *)
(* with                                                                    *)
AnswerRecordedWithin(cap) ==
  \E a \in Answers :
    /\ currentQuestion # JNull
    /\ Len(state.conversation_history) < cap
    /\ LET recorded ==
             addAnswerToStateIn(<<state>>, 1, currentQuestion.s, a,
                                state.current_question_id, now)
       IN state' = recorded.store[recorded.ref]
    /\ prev' = state'
    /\ req' = NoReq
    /\ prompt' = NoPrompt
    /\ resp' = NoResp
    /\ UNCHANGED <<impl, setup, currentQuestion, now, endedByOracle, uiVars,
                   evalVars, asked, stored, calls, profileVars>>

AnswerRecorded == AnswerRecordedWithin(MaxHist)

(* POST /api/next-question with the caller's session *)
Call(last_answer, replies) ==
  /\ roundTrip(state, state, last_answer, replies, now)
  /\ UNCHANGED <<impl, setup, now, uiVars, evalVars, stored, profileVars>>

PostNextQuestion(replies) ==
  \E la \in LastAnswers : Call(la, replies) /\ UNCHANGED calls

(* Date.now() moves on *)
Tick ==
  /\ now < MaxClock
  /\ now' = now + 1
  /\ UNCHANGED <<impl, setup, state, currentQuestion, req, prev, prompt, resp,
                 endedByOracle, uiVars, evalVars, asked, stored, calls,
                 profileVars>>

PostNextQuestionAny == PostNextQuestion(Replies)

Next ==
  \/ AnswerRecorded
  \/ PostNextQuestionAny
  \/ Tick

Spec == Init /\ [][Next]_vars

(* The oracle is down or garbles every reply, and the caller keeps asking. *)
FailingReplies ==
  { Reply(k, JUndef) : k \in {"throw", "nojson", "badjson"} }

PostNextQuestionFailing == PostNextQuestion(FailingReplies)

NextFailing ==
  \/ AnswerRecorded
  \/ PostNextQuestionFailing
  \/ Tick

FailSpec ==
  /\ Init
  /\ [][NextFailing]_vars
  /\ WF_vars(AnswerRecorded)
  /\ WF_vars(PostNextQuestionFailing)

(* The oracle returns a question on every call, and the caller answers     *)
(* every question put to it: a first call without an answer, then an       *)
(* answer recorded and a call carrying it, in turns.                       *)
CooperativeReplies == { Reply("json", JStr(<<"Q", " ">>)) }

(* a call carrying the last answer on record, none for an empty            *)
(* transcript; calls counts the calls the endpoint has accepted            *)
CooperativeCall ==
  LET history == state.conversation_history
      lastAnswer == IF history = <<>> THEN JUndef
                    ELSE JStr(history[Len(history)].answer)
  IN /\ Len(history) = calls
     /\ Call(lastAnswer, CooperativeReplies)
     /\ calls' = IF resp'.status = 200 THEN calls + 1 ELSE calls

CooperativeAnswer ==
  /\ Len(state.conversation_history) + 1 = calls
  /\ AnswerRecordedWithin(MaxChain)

NextCooperative ==
  \/ CooperativeCall
  \/ CooperativeAnswer
  \/ Tick

CoopSpec ==
  /\ Init
  /\ [][NextCooperative]_vars
  /\ WF_vars(CooperativeCall)
  /\ WF_vars(CooperativeAnswer)

(* ------------------------------ evaluation ----------------------------- *)
(* The four evaluation entry points: /api/final-evaluation over            *)
(* finalEvaluationAI, its older route with evaluateInterviewWithGemini,    *)
(* /api/evaluate over evaluateCandidateAI, and its older route with        *)
(* evaluateCandidate. The evaluation oracle's text is an untrusted input.  *)

EvNum(n) == [t |-> "number", n |-> n]

(* Number(value): NaN, or the number *)
NaN == [nan |-> TRUE, n |-> 0]
Num(n) == [nan |-> FALSE, n |-> n]

ToNumber(v) ==
  CASE v.t = "number" -> Num(v.n)
    [] v.t = "null" -> Num(0)
    [] v.t = "string" /\ v.s = <<>> -> Num(0)
    [] v.t = "string" /\ v.s = <<"7">> -> Num(7)
    [] v.t = "array" /\ v.a = <<>> -> Num(0)
    [] OTHER -> NaN

Smaller(a, b) == IF a <= b THEN a ELSE b
Larger(a, b) == IF a >= b THEN a ELSE b

clamp(value, min, max) ==
  LET num == ToNumber(value)
  IN IF num.nan THEN min ELSE Smaller(max, Larger(min, num.n))

(* Math.max(0, Math.min(max, Number(value) || 0)) *)
legacyClamp(value, max) ==
  LET num == ToNumber(value)
  IN Larger(0, Smaller(max, IF num.nan THEN 0 ELSE num.n))

Verdicts == { JStr(<<"Fit">>), JStr(<<"Maybe">>), JStr(<<"Reject">>) }

EvaluationResult(al, te, pr, co, st, we, verdict, summary) ==
  [ alignment_percentage  |-> al,
    technical_score       |-> te,
    problem_solving_score |-> pr,
    communication_score   |-> co,
    strengths             |-> st,
    weaknesses            |-> we,
    final_verdict         |-> verdict,
    summary               |-> summary ]

(* what the evaluation oracle may put in the fields of its object *)
AlignmentValues ==
  { JUndef, EvNum(-5), EvNum(50), EvNum(150), JStr(<<"7">>), JStr(<<"high">>) }
TechnicalValues == { JUndef, EvNum(7), EvNum(11) }
ProblemValues == { EvNum(6), JStr(<<"high">>) }
CommunicationValues == { EvNum(7), EvNum(-1) }
StrengthsValues ==
  { JUndef, JStr(<<"a">>), JList(<<>>),
    JList(<<JStr(<<"a">>), EvNum(1), JStr(<<"b">>)>>) }
WeaknessesValues ==
  { JUndef, JList(<<JStr(<<"w">>)>>), JList(<<JNull, JStr(<<"w">>)>>) }
VerdictValues == { JUndef, JStr(<<"Fit">>), JStr(<<"Reject">>), JStr(<<"Hire">>) }
SummaryValues == { JUndef, JStr(<<"ok">>), EvNum(1) }

EvalObjects ==
  [ alignment_percentage  : AlignmentValues,
    technical_score       : TechnicalValues,
    problem_solving_score : ProblemValues,
    communication_score   : CommunicationValues,
    strengths             : StrengthsValues,
    weaknesses            : WeaknessesValues,
    final_verdict         : VerdictValues,
    summary               : SummaryValues ]

(* the object {} *)
EmptyObject ==
  EvaluationResult(JUndef, JUndef, JUndef, JUndef, JUndef, JUndef, JUndef,
                   JUndef)

EvalReply(kind, object) == [kind |-> kind, object |-> object]
EvalReplies ==
  { EvalReply(k, EmptyObject) :
      k \in {"throw", "nojson", "badjson", "scalar", "null"} }
    \cup { EvalReply("json", o) : o \in EvalObjects }
NoEvalReply == EvalReply("none", EmptyObject)

EvalOk(result) == [status |-> 200, result |-> result]

IsText(v) == v.t = "string"

(* --- finalEvaluation.ai.ts --- *)

sanitizeEvaluation(parsed) ==
  EvaluationResult(
    EvNum(clamp(parsed.alignment_percentage, 0, 100)),
    EvNum(clamp(parsed.technical_score, 0, 10)),
    EvNum(clamp(parsed.problem_solving_score, 0, 10)),
    EvNum(clamp(parsed.communication_score, 0, 10)),
    IF parsed.strengths.t = "array" THEN parsed.strengths ELSE JList(<<>>),
    IF parsed.weaknesses.t = "array" THEN parsed.weaknesses ELSE JList(<<>>),
    IF parsed.final_verdict \in Verdicts THEN parsed.final_verdict
    ELSE JStr(<<"Maybe">>),
    IF parsed.summary.t = "string" THEN parsed.summary
    ELSE JStr(<<"Evaluation completed.">>))

getFallbackEvaluation(count) ==
  EvaluationResult(
    EvNum(65), EvNum(7), EvNum(6), EvNum(7),
    JList(<<JStr(<<"Completed interview">>),
            JStr(<<"Engaged in discussion">>)>>),
    JList(<<JStr(<<"Automated evaluation incomplete">>)>>),
    JStr(<<"Maybe">>),
    JStr(<<"The candidate answered ", ToString(count),
           " questions. Manual review is recommended.">>))

(* text.match(/\{[\s\S]*\}/), "{}" without a match; then JSON.parse *)
evalExtractJson(reply) ==
  IF reply.kind \in {"nojson", "scalar", "null"}
  THEN EvalReply("json", EmptyObject) ELSE reply

(* buildTranscript runs before the try: a transcript that is no array      *)
(* throws through to the route's catch                                     *)
finalEvaluationAI(data, reply) ==
  LET raw == evalExtractJson(reply)
  IN IF data.conversation_history.t # "array" THEN { ServerError }
     ELSE IF reply.kind = "throw" \/ raw.kind # "json"
     THEN { EvalOk(getFallbackEvaluation(Len(data.conversation_history.a))) }
     ELSE { EvalOk(sanitizeEvaluation(raw.object)) }

(* --- the older final-evaluation route --- *)

legacyFallbackEvaluation(answerCount) ==
  EvaluationResult(
    EvNum(65), EvNum(7), EvNum(6), EvNum(7),
    JList(<<JStr(<<"Demonstrates engagement with interview questions">>),
            JStr(<<"Provided responses to all questions">>)>>),
    JList(<<JStr(<<"Evaluation data incomplete - manual review recommended">>)>>),
    JStr(<<"Maybe">>),
    JStr(<<"The candidate completed the interview with ",
           ToString(answerCount),
           IF answerCount # 1 THEN " questions" ELSE " question",
           ". Due to technical limitations, a comprehensive automated evaluation could not be completed.",
           " Manual review of the interview transcript is recommended.">>))

(* JSON.parse of the cleaned text itself: a number, boolean, string or     *)
(* array parses and has none of the report's fields; null parses and       *)
(* reading its first field throws inside the try                           *)
evaluateInterviewWithGemini(data, reply) ==
  LET parsed == reply.object
  IN IF reply.kind \notin {"json", "scalar"}
     THEN { EvalOk(legacyFallbackEvaluation(Len(data.conversation_history.a))) }
     ELSE { EvalOk(EvaluationResult(
              EvNum(legacyClamp(parsed.alignment_percentage, 100)),
              EvNum(legacyClamp(parsed.technical_score, 10)),
              EvNum(legacyClamp(parsed.problem_solving_score, 10)),
              EvNum(legacyClamp(parsed.communication_score, 10)),
              IF parsed.strengths.t = "array"
              THEN JList(SelectSeq(parsed.strengths.a, IsText))
              ELSE JList(<<>>),
              IF parsed.weaknesses.t = "array"
              THEN JList(SelectSeq(parsed.weaknesses.a, IsText))
              ELSE JList(<<>>),
              IF parsed.final_verdict \in Verdicts THEN parsed.final_verdict
              ELSE JStr(<<"Maybe">>),
              IF parsed.summary.t = "string" THEN parsed.summary
              ELSE JStr(<<"Evaluation completed.">>))) }

(* --- evaluateCandidate.ai.ts --- *)

isValidEvaluation(obj) ==
  /\ obj.alignment_percentage.t = "number"
  /\ obj.technical_score.t = "number"
  /\ obj.problem_solving_score.t = "number"
  /\ obj.communication_score.t = "number"
  /\ obj.strengths.t = "array"
  /\ obj.weaknesses.t = "array"
  /\ obj.summary.t = "string"

candidateFallbackEvaluation ==
  EvaluationResult(
    EvNum(60), EvNum(7), EvNum(6), EvNum(7),
    JList(<<JStr(<<"Clear communication">>),
            JStr(<<"Basic technical understanding">>)>>),
    JList(<<JStr(<<"Needs deeper examples">>),
            JStr(<<"Limited edge-case discussion">>)>>),
    JStr(<<"Maybe">>),
    JStr(<<"The candidate demonstrates baseline competency but requires deeper technical validation.">>))

evaluateCandidateAI(data, reply) ==
  LET raw == evalExtractJson(reply)
  IN IF reply.kind = "throw" \/ raw.kind # "json"
          \/ ~isValidEvaluation(raw.object)
     THEN { EvalOk(candidateFallbackEvaluation) }
     ELSE { EvalOk(raw.object) }

(* --- the older evaluate route --- *)

(* Math.floor(Math.random() * n) + k, and a verdict picked at random; the  *)
(* summary says good for answers.length > 0 and limited otherwise          *)
getMockEvaluation(answers) ==
  { EvaluationResult(
      EvNum(a), EvNum(tech), EvNum(ps), EvNum(comm),
      JList(<<JStr(<<"Demonstrates strong technical knowledge">>),
              JStr(<<"Clear communication style">>),
              JStr(<<"Shows practical problem-solving approach">>)>>),
      JList(<<JStr(<<"Could provide more specific examples">>),
              JStr(<<"Some answers lacked depth">>)>>),
      v,
      JStr(<<"The candidate shows ",
             IF answers.t = "array" /\ Len(answers.a) > 0
             THEN "good" ELSE "limited",
             " engagement with the interview questions.",
             " Based on the responses provided, there are both strengths and areas for improvement.",
             " The evaluation considers technical alignment with the job description, problem-solving capabilities, and communication clarity.">>))
    : a \in 60..99, tech \in 7..9, ps \in 6..8, comm \in 7..9, v \in Verdicts }

(* generateContent is called outside the try: a throw reaches the route.   *)
(* Whatever JSON.parse gives is returned as it is: an object, or a value   *)
(* (42, true, "text", [1,2], null) that has none of the report's fields.   *)
evaluateCandidate(data, reply) ==
  IF reply.kind = "throw" THEN { ServerError }
  ELSE IF reply.kind \in {"nojson", "badjson"}
  THEN { EvalOk(r) : r \in getMockEvaluation(data.answers) }
  ELSE { EvalOk(reply.object) }

(* --- the routes --- *)

Falsy(v) == v.t \in {"undefined", "null"} \/ (v.t = "string" /\ v.s = <<>>)
NoLength(v) == v.t # "array" \/ v.a = <<>>

(* mutant: an empty transcript is let through *)
finalRequestInvalid_AnyTranscript(body) ==
  \/ Falsy(body.jobDescription)
  \/ Falsy(body.resume)
  \/ Falsy(body.roleTitle)

finalRequestInvalid(body) ==
  \/ Falsy(body.jobDescription)
  \/ Falsy(body.resume)
  \/ Falsy(body.roleTitle)
  \/ NoLength(body.conversation_history)

legacyFinalRequestInvalid(body) ==
  \/ Falsy(body.jobDescription)
  \/ Falsy(body.resume)
  \/ Falsy(body.roleTitle)
  \/ Falsy(body.conversation_history)
  \/ body.conversation_history.a = <<>>

evaluateRequestInvalid(body) ==
  \/ Falsy(body.jobDescription)
  \/ NoLength(body.questions)
  \/ NoLength(body.answers)

legacyEvaluateRequestInvalid(body) ==
  \/ Falsy(body.jobDescription)
  \/ Falsy(body.questions)
  \/ Falsy(body.answers)
  \/ body.answers.a = <<>>

Turn(type) == [question |-> <<"Q">>, answer |-> <<"a">>, questionType |-> type]
Transcripts ==
  { JUndef, JList(<<>>), JList(<<Turn("main")>>),
    JList(<<Turn("main"), Turn("followup")>>) }
QuestionLists == { JUndef, JList(<<>>), JList(<<JStr(<<"Q">>)>>) }

FinalBodies ==
  [ jobDescription       : { JStr(<<"jd">>), JStr(<<>>) },
    resume               : { JStr(<<"cv">>), JUndef },
    roleTitle            : { JStr(<<"dev">>) },
    conversation_history : Transcripts ]

EvaluateBodies ==
  [ jobDescription : { JStr(<<"jd">>), JStr(<<>>) },
    questions      : QuestionLists,
    answers        : Transcripts,
    resume         : { JStr(<<"cv">>) } ]

(* one evaluation request: the route validates, the oracle is asked only   *)
(* for a request that passed, and the route answers                        *)
(* the implementation each route hands a valid request to *)
Implementation(entry, body, reply) ==
  CASE entry = "final"       -> finalEvaluationAI(body, reply)
    [] entry = "finalLegacy" -> evaluateInterviewWithGemini(body, reply)
    [] entry = "evaluate"    -> evaluateCandidateAI(body, reply)
    [] OTHER                 -> evaluateCandidate(body, reply)

Evaluated(entry, body, invalid) ==
  /\ ~evalReq.sent
  /\ evalPrompted' = ~invalid
  /\ \E reply \in IF invalid THEN {NoEvalReply} ELSE EvalReplies :
       /\ evalReq' = [sent |-> TRUE, entry |-> entry, body |-> body,
                      reply |-> reply]
       /\ evalResp' \in IF invalid THEN {BadRequest} ELSE Implementation(entry, body, reply)
  /\ UNCHANGED <<impl, setup, state, currentQuestion, now, req, prev, prompt,
                 resp, endedByOracle, uiVars, asked, stored, calls, profileVars>>

PostFinalEvaluation ==
  \E body \in FinalBodies :
    Evaluated("final", body, finalRequestInvalid(body))

PostFinalEvaluationLegacy ==
  \E body \in FinalBodies :
    Evaluated("finalLegacy", body, legacyFinalRequestInvalid(body))

PostEvaluate ==
  \E body \in EvaluateBodies :
    Evaluated("evaluate", body, evaluateRequestInvalid(body))

PostEvaluateLegacy ==
  \E body \in EvaluateBodies :
    Evaluated("evaluateLegacy", body, legacyEvaluateRequestInvalid(body))

NextEval ==
  \/ PostFinalEvaluation
  \/ PostFinalEvaluationLegacy
  \/ PostEvaluate
  \/ PostEvaluateLegacy

EvalInit ==
  /\ Init
  /\ impl = "lib"
  /\ setup = GoodContext
  /\ state = createInitialInterviewState(MaxQ, MaxFU)

EvalSpec == EvalInit /\ [][NextEval]_vars

(* --------------------------- profile analysis -------------------------- *)
(* /api/analyze-profile with its analyzeProfileWithGemini, and the library *)
(* analyzeProfileAI. The oracle's text is an untrusted input: it throws,   *)
(* or returns text without {...}, text whose {...} is not JSON, the text   *)
(* null, or one JSON object.                                               *)

Blueprint(ks, sg, np, fa, th) ==
  [ key_skills                |-> ks,
    skill_gaps                |-> sg,
    notable_projects          |-> np,
    focus_areas               |-> fa,
    suggested_question_themes |-> th ]

Texts(names) == JList([i \in 1..Len(names) |-> JStr(<<names[i]>>)])

SkillValues == { JUndef, JList(<<>>), Texts(<<"React">>) }
ThemeValues == { JList(<<>>), JStr(<<"none">>) }

BlueprintObjects ==
  { Blueprint(ks, sg, np, fa, th) :
      ks \in SkillValues, sg \in SkillValues, np \in ThemeValues,
      fa \in ThemeValues, th \in ThemeValues }

EmptyBlueprintObject == Blueprint(JUndef, JUndef, JUndef, JUndef, JUndef)

ProfileReply(kind, object) == [kind |-> kind, object |-> object]
ProfileReplies ==
  { ProfileReply(k, EmptyBlueprintObject) :
      k \in {"throw", "nojson", "badjson", "scalar", "null"} }
    \cup { ProfileReply("json", o) : o \in BlueprintObjects }
NoProfileReply == ProfileReply("none", EmptyBlueprintObject)

(* JSON.parse of the cleaned text: a value, or a SyntaxError *)
profileJsonParse(raw) ==
  [ ok    |-> raw.kind \in {"json", "scalar", "null"},
    value |-> IF raw.kind \in {"json", "scalar"} THEN raw.object ELSE JNull ]

isValidBlueprint(obj) ==
  /\ obj # JNull
  /\ obj.key_skills.t = "array"
  /\ obj.skill_gaps.t = "array"
  /\ obj.notable_projects.t = "array"
  /\ obj.focus_areas.t = "array"
  /\ obj.suggested_question_themes.t = "array"

(* analyzeProfile.ai.ts: text.match(/\{[\s\S]*\}/), "{}" without a match *)
profileExtractJson(reply) ==
  IF reply.kind \in {"nojson", "scalar", "null"}
  THEN ProfileReply("json", EmptyBlueprintObject) ELSE reply

getFallbackBlueprint ==
  Blueprint(Texts(<<"Technical skills", "Problem-solving">>),
            Texts(<<"Experience gaps">>),
            Texts(<<"Previous work">>),
            Texts(<<"Technical depth", "Communication">>),
            Texts(<<"Projects", "Challenges">>))

analyzeProfileAI(data, reply) ==
  LET parsed == profileJsonParse(profileExtractJson(reply))
  IN IF reply.kind = "throw" \/ ~parsed.ok THEN getFallbackBlueprint
     ELSE IF ~isValidBlueprint(parsed.value) THEN getFallbackBlueprint
     ELSE parsed.value

(* the route's cleanJsonResponse: fences stripped, the {...} match taken   *)
(* when there is one, the text itself otherwise                            *)
profileCleanJsonResponse(reply) == reply

routeFallbackBlueprint ==
  Blueprint(Texts(<<"Technical skills", "Problem-solving", "Communication">>),
            Texts(<<"Experience gaps to explore">>),
            Texts(<<"Previous work experience">>),
            Texts(<<"Technical competency", "Cultural fit",
                    "Problem-solving approach">>),
            Texts(<<"Technical experience", "Challenges faced",
                    "Project details">>))

analyzeProfileWithGemini(data, reply) ==
  LET parsed == profileJsonParse(profileCleanJsonResponse(reply))
  IN IF reply.kind = "throw" \/ ~parsed.ok THEN routeFallbackBlueprint
     ELSE IF ~isValidBlueprint(parsed.value) THEN routeFallbackBlueprint
     ELSE parsed.value

(* the request body: wellFormed is false when request.json() throws *)
ProfileBody(wellFormed, jd, resume, role) ==
  [ wellFormed     |-> wellFormed,
    jobDescription |-> jd,
    resume         |-> resume,
    roleTitle      |-> role ]

ProfileBodies ==
  { ProfileBody(TRUE, jd, cv, role) :
      jd \in { JStr(<<"jd">>), JStr(<<>>) },
      cv \in { JStr(<<"cv">>), JUndef },
      role \in { JStr(<<"dev">>), JStr(<<>>) } }
    \cup { ProfileBody(FALSE, JUndef, JUndef, JUndef) }

profileRequestInvalid(body) ==
  Falsy(body.jobDescription) \/ Falsy(body.resume) \/ Falsy(body.roleTitle)

ProfileAnswer(status, success, blueprint) ==
  [status |-> status, success |-> success, blueprint |-> blueprint]

(* POST /api/analyze-profile *)
analyzeProfilePost(body, reply) ==
  IF ~body.wellFormed
  THEN ProfileAnswer(500, FALSE, routeFallbackBlueprint)
  ELSE IF profileRequestInvalid(body) THEN BadRequest
  ELSE ProfileAnswer(200, TRUE, analyzeProfileWithGemini(body, reply))

(* what a direct call of analyzeProfileAI returns: a blueprint, no status  *)
ProfileReturned(blueprint) == [status |-> 0, blueprint |-> blueprint]

PostAnalyzeProfile ==
  /\ ~profileReq.sent
  /\ \E body \in ProfileBodies :
       LET called == body.wellFormed /\ ~profileRequestInvalid(body)
       IN \E reply \in IF called THEN ProfileReplies ELSE {NoProfileReply} :
            /\ profileReq' = [sent |-> TRUE, entry |-> "route",
                              body |-> body, reply |-> reply]
            /\ profileResp' = analyzeProfilePost(body, reply)
  /\ UNCHANGED <<impl, setup, state, currentQuestion, now, req, prev, prompt,
                 resp, endedByOracle, uiVars, evalVars, asked, stored, calls>>

CallAnalyzeProfileAI ==
  /\ ~profileReq.sent
  /\ \E data \in { b \in ProfileBodies : b.wellFormed },
        reply \in ProfileReplies :
       /\ profileReq' = [sent |-> TRUE, entry |-> "lib",
                         body |-> data, reply |-> reply]
       /\ profileResp' = ProfileReturned(analyzeProfileAI(data, reply))
  /\ UNCHANGED <<impl, setup, state, currentQuestion, now, req, prev, prompt,
                 resp, endedByOracle, uiVars, evalVars, asked, stored, calls>>

NextProfile ==
  \/ PostAnalyzeProfile
  \/ CallAnalyzeProfileAI

ProfileSpec == EvalInit /\ [][NextProfile]_vars

(* ------------------------------ the page ------------------------------- *)
(* The interview page with its requests in flight: a handler runs up to    *)
(* its await and returns, the response arrives in a later step. The        *)
(* controls are on screen once isInitializing is false and the page has a  *)
(* setup and a session; Submit Answer and Skip are disabled while          *)
(* isLoadingQuestion.                                                      *)

(* useState<InterviewSetup | null>(null) *)
NoSetup == JNull

(* useState<InterviewState | null>(null) *)
NoSession == JNull

(* the request of analyzeProfile while it is in flight, with the body it   *)
(* posts                                                                   *)
ProfileRequested ==
  [ sent  |-> TRUE,
    entry |-> "route",
    body  |-> ProfileBody(TRUE, setup.jobDescription, setup.resume,
                          setup.roleTitle),
    reply |-> NoProfileReply ]

(* initializeInterview up to its first await, or to its end when it has    *)
(* none. Without a saved setup it alerts, leaves for /setup and returns;   *)
(* a saved text that does not parse is caught before the session is        *)
(* created; the saved text null is caught after it (parsed.                *)
(* useDynamicQuestions throws). With a setup the session is                *)
(* createInitialInterviewState(7, 2); in the dynamic mode the request of   *)
(* analyzeProfile is sent and awaited, in the static mode the first fixed  *)
(* question, when there is one, is on screen.                              *)
PageInit ==
  /\ impl \in {"lib", "route"}
  /\ \/ /\ setup = NoSetup
        /\ state = NoSession
        /\ isInitializing \in BOOLEAN
        /\ currentQuestion = JNull
        /\ profileReq = NoProfileReq
     \/ /\ setup \in Setups \cup {NoSetup}
        /\ state = createInitialInterviewState(7, 2)
        /\ isInitializing = (setup # NoSetup /\ Dynamic(setup))
        /\ currentQuestion =
             IF setup # NoSetup /\ ~Dynamic(setup)
                  /\ setup.questions.t = "array" /\ setup.questions.a # <<>>
             THEN setup.questions.a[1]
             ELSE JNull
        /\ profileReq =
             IF isInitializing THEN ProfileRequested ELSE NoProfileReq
  /\ now = 0
  /\ req = NoReq
  /\ prev = state
  /\ prompt = NoPrompt
  /\ resp = NoResp
  /\ endedByOracle = FALSE
  /\ isLoadingQuestion = FALSE
  /\ pending = <<>>
  /\ evalReq = NoEvalReq
  /\ evalPrompted = FALSE
  /\ evalResp = NoResp
  /\ asked = NotAsked
  /\ stored = NothingStored
  /\ calls = 0
  /\ profileResp = NoResp

(* finishInterview as the handler that made the request sees it: the       *)
(* interviewState of the render the handler belongs to is what is stored,  *)
(* nothing when that render had no session yet                             *)
finishInterview(rendered) ==
  stored' = IF rendered = NoSession THEN stored
            ELSE Stored(rendered.conversation_history)

(* if (isInitializing) and if (!setup || !interviewState) return another   *)
(* screen                                                                  *)
ControlsShown ==
  ~isInitializing /\ setup # NoSetup /\ state # NoSession

(* mutant: the controls stay enabled while a request is in flight *)
ControlsDisabled_Never == FALSE

ControlsDisabled == isLoadingQuestion

Without(seq, i) == SubSeq(seq, 1, i - 1) \o SubSeq(seq, i + 1, Len(seq))

(* loadNextQuestion up to its fetch. A request in flight is the session    *)
(* object given to loadNextQuestion, the last answer, and the              *)
(* interviewState of the render whose handler made the call; for Skip the  *)
(* two are one object.                                                     *)
beginLoad(s, last_answer, rendered) ==
  IF ~Dynamic(setup)
  THEN UNCHANGED <<isLoadingQuestion, pending, calls>>
  ELSE /\ isLoadingQuestion' = TRUE
       /\ pending' = Append(pending, [ state       |-> s,
                                      last_answer |-> last_answer,
                                      rendered    |-> rendered ])
       /\ calls' = calls + 1

(* initializeInterview from the return of analyzeProfile on:               *)
(* setIsInitializing(false), then the first loadNextQuestion up to its     *)
(* fetch, made by the effect of the first render, whose interviewState is  *)
(* null                                                                    *)
firstLoad ==
  /\ isInitializing' = FALSE
  /\ beginLoad(state, JUndef, NoSession)
  /\ UNCHANGED <<impl, setup, state, currentQuestion, now, req, prev, prompt,
                 resp, endedByOracle, evalVars, asked, stored>>

(* /api/analyze-profile answers the request sent at mount; its oracle     *)
(* gives one reply of each kind, an object that is a blueprint and one     *)
(* that is not                                                             *)
ProfileArrives ==
  LET blueprint == Blueprint(Texts(<<"React">>), JList(<<>>), JList(<<>>),
                             JList(<<>>), JList(<<>>))
      replies ==
        { ProfileReply(k, EmptyBlueprintObject) :
            k \in {"throw", "nojson", "badjson", "scalar", "null", "json"} }
          \cup { ProfileReply("json", blueprint) }
  IN /\ isInitializing
     /\ profileReq.sent
     /\ \E reply \in IF profileRequestInvalid(profileReq.body)
                    THEN {NoProfileReply} ELSE replies :
          /\ profileReq' = [profileReq EXCEPT !.reply = reply]
          /\ profileResp' = analyzeProfilePost(profileReq.body, reply)
     /\ firstLoad

(* the fetch of analyzeProfile rejects: catch, the blueprint is null *)
ProfileRequestFails ==
  /\ isInitializing
  /\ profileReq.sent
  /\ profileResp' = ServerError
  /\ firstLoad
  /\ UNCHANGED profileReq

(* the static mode of saveAnswer and skipQuestion, else if (setup.questions): *)
(* the next fixed question is put on screen and the index advanced, or the *)
(* interview is finished with the session the handler was rendered with    *)
staticNext(s, rendered) ==
  LET nextIndex == rendered.current_question_index + 1
  IN IF setup.questions.t # "array"
     THEN /\ state' = s
          /\ UNCHANGED <<currentQuestion, stored>>
     ELSE IF nextIndex < Len(setup.questions.a)
     THEN /\ currentQuestion' = setup.questions.a[nextIndex + 1]
          /\ state' = [s EXCEPT !.current_question_index = nextIndex]
          /\ UNCHANGED stored
     ELSE /\ state' = s
          /\ finishInterview(rendered)
          /\ UNCHANGED currentQuestion

(* saveAnswer up to the fetch of loadNextQuestion; the static mode has no  *)
(* request and runs to its end. addAnswerToState is given the              *)
(* interviewState of the render, and the handler's closure goes on holding *)
(* that object.                                                            *)
SubmitClicked ==
  \E a \in Answers :
    /\ ControlsShown
    /\ ~ControlsDisabled
    /\ currentQuestion # JNull
    /\ Len(state.conversation_history) < MaxTurns
    /\ Len(pending) < MaxPending
    /\ calls < MaxLoads
    /\ LET recorded ==
             addAnswerToStateIn(<<state>>, 1, currentQuestion.s, a,
                                state.current_question_id, now)
           interviewState == recorded.store[1]
           updatedState == recorded.store[recorded.ref]
       IN IF Dynamic(setup)
          THEN /\ state' = updatedState
               /\ beginLoad(updatedState, JStr(a), interviewState)
               /\ UNCHANGED <<currentQuestion, stored>>
          ELSE /\ staticNext(updatedState, interviewState)
               /\ UNCHANGED <<isLoadingQuestion, pending, calls>>
    /\ UNCHANGED <<impl, setup, now, req, prev, prompt, resp, endedByOracle,
                   isInitializing, evalVars, asked, profileVars>>

(* skipQuestion up to the fetch of loadNextQuestion *)
SkipClicked ==
  /\ ControlsShown
  /\ ~ControlsDisabled
  /\ Len(pending) < MaxPending
  /\ calls < MaxLoads
  /\ IF Dynamic(setup)
     THEN /\ beginLoad(state, JUndef, state)
          /\ UNCHANGED <<state, currentQuestion, stored>>
     ELSE /\ staticNext(state, state)
          /\ UNCHANGED <<isLoadingQuestion, pending, calls>>
  /\ UNCHANGED <<impl, setup, now, req, prev, prompt, resp, endedByOracle,
                 isInitializing, evalVars, asked, profileVars>>

(* loadNextQuestion from the response on: merge, question, finishInterview, *)
(* finally. finishInterview reads the interviewState of the handler's      *)
(* render, which for Skip is the session object the call was given, as the *)
(* call leaves it.                                                         *)
ResponseArrives ==
  \E i \in 1..Len(pending) :
    LET call == pending[i]
        served ==
          nextQuestionIn(impl, <<call.state>>, 1,
                         Body(setup, call.state, call.last_answer),
                         req'.reply, now)
        rendered == IF call.rendered = call.state THEN served.store[1]
                    ELSE call.rendered
    IN /\ roundTrip(state, call.state, call.last_answer, Replies, now)
       /\ pending' = Without(pending, i)
       /\ isLoadingQuestion' = FALSE
       /\ IF resp'.status = 200 /\ resp'.interview_complete
          THEN finishInterview(rendered)
          ELSE UNCHANGED stored
       /\ UNCHANGED <<impl, setup, now, isInitializing, evalVars, calls,
                      profileVars>>

(* the fetch rejects or the route answers 500: catch, then finally *)
RequestFails ==
  \E i \in 1..Len(pending) :
    /\ prev' = pending[i].state
    /\ req' = [sent |-> TRUE, last_answer |-> pending[i].last_answer,
               reply |-> NoReply]
    /\ prompt' = NoPrompt
    /\ resp' = ServerError
    /\ pending' = Without(pending, i)
    /\ isLoadingQuestion' = FALSE
    /\ UNCHANGED <<impl, setup, state, currentQuestion, now, endedByOracle,
                   isInitializing, evalVars, asked, stored, calls,
                   profileVars>>

NextAsync ==
  \/ ProfileArrives
  \/ ProfileRequestFails
  \/ SubmitClicked
  \/ SkipClicked
  \/ ResponseArrives
  \/ RequestFails
  \/ Tick

AsyncSpec == PageInit /\ [][NextAsync]_vars

(* ======================================================================= *)
(* Properties                                                              *)
(* ======================================================================= *)

PhaseRank(phase) ==
  CASE phase = "initializing" -> 0
    [] phase = "in_progress" -> 1
    [] phase = "completed" -> 2

(* a round trip was answered with a session state *)
Answered == req.sent /\ resp.status = 200

(* the route reached the oracle in the last round trip *)
OracleCalled == Answered /\ prompt # NoPrompt

(* the answer text counts as present: a non-empty string *)
Present(last_answer) == last_answer.t = "string" /\ last_answer.s # <<>>

Eligible(s, last_answer) ==
  /\ Present(last_answer)
  /\ s.question_type = "main"
  /\ s.followup_count < s.max_followups

(* the reply parsed to an object whose question is non-blank text *)
NonBlankQuestion(reply) ==
  /\ reply.kind = "json"
  /\ reply.question.t = "string"
  /\ Trim(reply.question.s) # <<>>

(* the reply parsed to an object whose question is absent or blank *)
AbsentOrBlankQuestion(reply) ==
  /\ reply.kind = "json"
  /\ \/ reply.question.t \in {"null", "undefined"}
     \/ reply.question.t = "string" /\ Trim(reply.question.s) = <<>>

(* transport, parse or validation failure of the oracle call *)
OracleFailed(reply) ==
  \/ reply.kind \in {"throw", "nojson", "badjson", "scalar", "null"}
  \/ reply.kind = "json" /\ reply.question.t \in {"undefined", "number"}

IsTemplate(question) ==
  question \in { Template(setup.roleTitle, "role."),
                 Template(setup.roleTitle, "position.") }

InBudget(s) == 0 <= s.followup_count /\ s.followup_count <= s.max_followups

(* C1: in every reachable session state, and in every state any reply of   *)
(* the oracle to any request on it would produce, followup_count lies in   *)
(* [0, max_followups].                                                     *)
C1_FollowupWithinBudget ==
  /\ InBudget(state)
  /\ Answered => InBudget(resp.updated_state)
  /\ \A la \in LastAnswers, reply \in Replies :
       InBudget(Post(impl, Body(GoodContext, state, la), reply, now).updated_state)

(* the oracle returned a question to a request carrying an answer while    *)
(* the budget was exhausted, and the main-question branch was taken        *)
C1_Witness ==
  /\ OracleCalled
  /\ Present(req.last_answer)
  /\ prev.question_type = "main"
  /\ prev.followup_count = prev.max_followups
  /\ NonBlankQuestion(req.reply)
  /\ resp.updated_state.question_type = "main"
  /\ resp.updated_state.followup_count = 0

(* C2: no step decreases current_question_index or moves interview_phase   *)
(* backwards in initializing < in_progress < completed.                    *)
C2_IndexAndPhaseMonotone ==
  [][ /\ state'.current_question_index >= state.current_question_index
      /\ PhaseRank(state'.interview_phase) >= PhaseRank(state.interview_phase)
    ]_vars

(* a completed session was submitted again and echoed at its last index *)
C2_Witness ==
  /\ Answered
  /\ prev.interview_phase = "completed"
  /\ prev.current_question_index < prev.max_questions
  /\ state.interview_phase = "completed"
  /\ state.current_question_index = prev.current_question_index

(* C3: whenever the oracle is called, the follow-up prompt is the one sent *)
(* iff the request carries an answer, the submitted question_type is main  *)
(* and followup_count < max_followups; the main prompt otherwise. The same *)
(* holds of every request that could be made on the current state.         *)
C3_FollowUpBranchIffEligible ==
  /\ OracleCalled =>
       /\ prompt.kind \in {"followup", "main"}
       /\ prompt.kind = "followup" <=> Eligible(prev, req.last_answer)
       /\ NonBlankQuestion(req.reply) =>
            (resp.updated_state.question_type = "followup"
               <=> Eligible(prev, req.last_answer))
  /\ \A la \in LastAnswers :
       state.interview_phase # "completed" =>
         LET sent == PromptSent(impl, Body(GoodContext, state, la))
         IN /\ sent.kind \in {"followup", "main"}
            /\ sent.kind = "followup" <=> Eligible(state, la)

(* the follow-up prompt was sent for an answered main question *)
C3_Witness ==
  /\ OracleCalled
  /\ prompt.kind = "followup"
  /\ Present(req.last_answer)
  /\ prev.question_type = "main"
  /\ prev.followup_count < prev.max_followups

(* C4: a non-blank question returned on the main-question branch gives     *)
(* index = old + 1, followup_count = 0, question_type = main, a newly      *)
(* minted id, and phase completed iff the new index >= max_questions.      *)
C4_MainTransition ==
  (OracleCalled /\ prompt.kind = "main" /\ NonBlankQuestion(req.reply)) =>
    LET u == resp.updated_state
    IN /\ u.current_question_index = prev.current_question_index + 1
       /\ u.followup_count = 0
       /\ u.question_type = "main"
       /\ u.current_question_id.kind = "main"
       /\ u.current_question_id.index = u.current_question_index
       /\ u.current_question_id # prev.current_question_id
       /\ resp.question_id = u.current_question_id
       /\ u.interview_phase =
            IF u.current_question_index >= u.max_questions
            THEN "completed" ELSE "in_progress"
       /\ u.max_questions = prev.max_questions
       /\ u.max_followups = prev.max_followups
       /\ state.current_question_index = u.current_question_index
       /\ state.followup_count = 0
       /\ state.question_type = "main"
       /\ state.interview_phase = u.interview_phase

(* index 0 of a longer interview became index 1, in progress *)
C4_Witness ==
  /\ OracleCalled
  /\ prompt.kind = "main"
  /\ NonBlankQuestion(req.reply)
  /\ ~Present(req.last_answer)
  /\ prev.current_question_index = 0
  /\ prev.max_questions > 1
  /\ state.current_question_index = 1
  /\ state.interview_phase = "in_progress"

(* C5: a non-blank question returned on the follow-up branch gives         *)
(* followup_count = old + 1, question_type = followup, the index           *)
(* unchanged, a newly minted id, phase in_progress and                     *)
(* interview_complete = false.                                             *)
C5_FollowUpTransition ==
  (OracleCalled /\ prompt.kind = "followup" /\ NonBlankQuestion(req.reply)) =>
    LET u == resp.updated_state
    IN /\ u.followup_count = prev.followup_count + 1
       /\ u.question_type = "followup"
       /\ u.current_question_index = prev.current_question_index
       /\ u.current_question_id.kind = "followup"
       /\ u.current_question_id.index = prev.current_question_index
       /\ u.current_question_id # prev.current_question_id
       /\ resp.question_id = u.current_question_id
       /\ u.interview_phase = "in_progress"
       /\ resp.interview_complete = FALSE
       /\ state.followup_count = prev.followup_count + 1
       /\ state.question_type = "followup"
       /\ state.interview_phase = "in_progress"

(* the answer to the question at index 0 drew the first follow-up *)
C5_Witness ==
  /\ OracleCalled
  /\ prompt.kind = "followup"
  /\ NonBlankQuestion(req.reply)
  /\ prev.current_question_index = 0
  /\ prev.followup_count = 0
  /\ state.current_question_index = 0
  /\ state.followup_count = 1
  /\ state.question_type = "followup"
  /\ resp.interview_complete = FALSE

(* C6: a decision whose question is absent or blank (null, missing, empty  *)
(* or white space only) completes the session: phase completed,            *)
(* interview_complete = true, and index, followup_count, question_type     *)
(* and conversation_history as submitted.                                  *)
C6_AbsentQuestionCompletes ==
  (OracleCalled /\ AbsentOrBlankQuestion(req.reply)) =>
    LET u == resp.updated_state
    IN /\ u.interview_phase = "completed"
       /\ resp.interview_complete = TRUE
       /\ u.current_question_index = prev.current_question_index
       /\ u.followup_count = prev.followup_count
       /\ u.question_type = prev.question_type
       /\ u.conversation_history = prev.conversation_history
       /\ state.interview_phase = "completed"
       /\ state.conversation_history = prev.conversation_history

(* C7 as stated: in every reachable state, phase is completed iff          *)
(* (index >= max_questions and question_type is main) or an absent         *)
(* question was applied.                                                   *)
C7_CompletedIffLimitOrOracle ==
  state.interview_phase = "completed" <=>
    \/ /\ state.current_question_index >= state.max_questions
       /\ state.question_type = "main"
    \/ endedByOracle

(* C7 amended: the equivalence holds in every reachable state of a session *)
(* created with max_questions >= 1.  With max_questions = 0 the fresh      *)
(* session already has index >= max_questions while initializing, and a    *)
(* failed call on a follow-up of that session completes it with            *)
(* question_type followup.                                                 *)
C7_CompletedIffLimitOrOracleOnceStarted ==
  (state.max_questions >= 1) =>
    (state.interview_phase = "completed" <=>
       \/ /\ state.current_question_index >= state.max_questions
          /\ state.question_type = "main"
       \/ endedByOracle)

(* the last main question was issued: completed by the limit alone *)
C7_Witness ==
  /\ state.interview_phase = "completed"
  /\ ~endedByOracle
  /\ state.max_questions = 2
  /\ state.current_question_index = 2
  /\ state.question_type = "main"

(* C8: with an oracle that fails on every call and a client that keeps     *)
(* requesting, a session with a valid setup eventually completes.          *)
C8_FailingOracleEventuallyCompletes ==
  (setup = GoodContext) => <>(state.interview_phase = "completed")

(* C9: a response that delivers the templated fallback question returns a  *)
(* state advanced as for a main question: index + 1, followup_count 0,     *)
(* question_type main, a newly minted current_question_id.                 *)
C9_FallbackQuestionCounted ==
  (Answered /\ IsTemplate(resp.question)) =>
    LET u == resp.updated_state
    IN /\ u.current_question_index = prev.current_question_index + 1
       /\ u.followup_count = 0
       /\ u.question_type = "main"
       /\ u.current_question_id # prev.current_question_id
       /\ u.current_question_id = resp.question_id

(* C10: an oracle failure while a follow-up is solicited delivers no       *)
(* question, leaves followup_count alone and leaves the session open for   *)
(* the next main question.                                                 *)
C10_FollowUpFailureSkips ==
  (OracleCalled /\ prompt.kind = "followup" /\ OracleFailed(req.reply)) =>
    /\ resp.question = JNull
    /\ resp.updated_state.followup_count = prev.followup_count
    /\ resp.updated_state.interview_phase # "completed"

(* C11: on the main-question branch every oracle failure (a throw, text    *)
(* without a parseable object, an object whose question is missing or not  *)
(* text) delivers the templated question while index < max_questions, and  *)
(* an absent question once index has reached max_questions.                *)
C11_MainFailureFallsBack ==
  (OracleCalled /\ prompt.kind = "main" /\ OracleFailed(req.reply)) =>
    IF prev.current_question_index < prev.max_questions
    THEN IsTemplate(resp.question)
    ELSE resp.question = JNull

(* C12: when the oracle declines to follow up on an eligible answer (its   *)
(* question is null or blank), the session is not completed and the        *)
(* response moves on to the next main question, index + 1.                 *)
C12_DeclinedFollowUpMovesOn ==
  ( /\ OracleCalled
    /\ prompt.kind = "followup"
    /\ Eligible(prev, req.last_answer)
    /\ AbsentOrBlankQuestion(req.reply)
    /\ req.reply.question.t # "undefined" ) =>
    /\ resp.updated_state.interview_phase # "completed"
    /\ resp.interview_complete = FALSE
    /\ resp.updated_state.current_question_index
         = prev.current_question_index + 1
    /\ resp.updated_state.question_type = "main"

(* C13: the follow-up budget is attainable. With an oracle that always     *)
(* returns a question and a candidate who answers every question, a fresh  *)
(* session with at least two main questions reaches followup_count = k for *)
(* every k in 1..max_followups.                                            *)
C13_FollowUpBudgetAttainable ==
  \A k \in 1..MaxFU :
    ( /\ setup = GoodContext
      /\ state.max_questions >= 2
      /\ state.max_followups >= k ) => <>(state.followup_count = k)

(* C14: a next-question call on a completed session returns the submitted  *)
(* state unchanged, a null question and interview_complete = true, without *)
(* calling the oracle; calling again with the returned state, whatever the *)
(* answer carried and whatever the oracle would say, returns the same.     *)
C14_CompletedCallIsNoOp ==
  /\ (Answered /\ prev.interview_phase = "completed") =>
       /\ prompt = NoPrompt
       /\ resp.question = JNull
       /\ resp.interview_complete = TRUE
       /\ resp.updated_state = prev
       /\ state = prev
       /\ \A la \in LastAnswers, reply \in Replies :
            Post(impl, Body(setup, resp.updated_state, la), reply, now) = resp
  /\ state.interview_phase = "completed" =>
       \A la \in LastAnswers, reply \in Replies :
         LET again == Post(impl, Body(GoodContext, state, la), reply, now)
         IN /\ again.updated_state = state
            /\ again.question = JNull
            /\ again.interview_complete = TRUE
            /\ PromptSent(impl, Body(GoodContext, state, la)) = NoPrompt

(* a completed session was submitted with an answer and echoed *)
C14_Witness ==
  /\ Answered
  /\ Present(req.last_answer)
  /\ prev.interview_phase = "completed"
  /\ prev.conversation_history # <<>>
  /\ resp.updated_state = prev
  /\ resp.question = JNull
  /\ prompt = NoPrompt

(* C15: once interview_phase is completed no operation changes any field   *)
(* of the session, conversation_history included: neither a client step    *)
(* (request, merge) nor recording an answer.                               *)
C15_CompletedIsImmutable ==
  [][ state.interview_phase = "completed" =>
        /\ state' = state
        /\ \A a \in Answers :
             recordAnswer(state, <<"Q">>, a, state.current_question_id, now)
               = state
    ]_vars

(* C16: a response that delivers a question never carries the question id  *)
(* of the response before it, even when both are served at the same clock  *)
(* instant.                                                                *)
C16_QuestionIdsFresh ==
  [][ ( /\ now' = now
        /\ Answered /\ Truthy(resp.question)
        /\ Answered' /\ Truthy(resp'.question) ) =>
        resp'.question_id # resp.question_id
    ]_vars

(* C17: every response that carries a question describes the state it      *)
(* returns: question_id = updated_state.current_question_id and            *)
(* question_type = updated_state.question_type.                            *)
C17_ResponseDescribesState ==
  (Answered /\ resp.question # JNull) =>
    /\ resp.question_id = resp.updated_state.current_question_id
    /\ resp.question_type = resp.updated_state.question_type

(* C18: in every response (oracle path, fallback, terminal echo)           *)
(* interview_complete is true iff updated_state.interview_phase is         *)
(* completed; the same holds of every response the current state could     *)
(* draw.                                                                   *)
C18_CompleteMirrorsPhase ==
  /\ Answered =>
       (resp.interview_complete
          <=> resp.updated_state.interview_phase = "completed")
  /\ \A la \in LastAnswers, reply \in Replies :
       LET r == Post(impl, Body(GoodContext, state, la), reply, now)
       IN r.interview_complete <=> r.updated_state.interview_phase = "completed"

(* the fallback answered a session already at its limit: completed, and    *)
(* reported complete                                                       *)
C18_Witness ==
  /\ OracleCalled
  /\ req.reply.kind = "throw"
  /\ prev.current_question_index >= prev.max_questions
  /\ resp.interview_complete = TRUE
  /\ resp.updated_state.interview_phase = "completed"

(* C19: no response both delivers a question and reports                   *)
(* interview_complete = true.                                              *)
C19_NoQuestionWhenComplete ==
  Answered => ~(Truthy(resp.question) /\ resp.interview_complete)

(* local copies differing from the submitted one in conversation_history   *)
LocalHistories ==
  { <<>>,
    <<[question |-> <<"Q">>, answer |-> <<"a">>, timestamp |-> 0,
       questionId |-> UndefId, questionType |-> "main",
       mainQuestionIndex |-> NoIndex]>> }

(* C20: merging a returned state into a local session takes every field    *)
(* from the returned state except conversation_history, which is the local *)
(* one, for every local history and every returned state, a state that     *)
(* has just become completed included.                                     *)
C20_MergeKeepsLocalHistory ==
  Answered =>
    \A h \in LocalHistories \cup {prev.conversation_history} :
      LET local == [prev EXCEPT !.conversation_history = h]
          server == resp.updated_state
          merged == [server EXCEPT !.conversation_history = h]
      IN /\ syncStateFromServer(local, server) = merged
         /\ updateStateFromResponse(local, server) = merged

(* history h with one entry added at its end: an answer to the question on *)
(* screen                                                                  *)
ExtendsByOneAnswer(h, longer) ==
  /\ Len(longer) = Len(h) + 1
  /\ SubSeq(longer, 1, Len(h)) = h
  /\ longer[Len(longer)].answer \in Answers
  /\ currentQuestion # JNull
  /\ longer[Len(longer)].question = currentQuestion.s

(* C21: conversation_history is append-only. Every step of a caller, an    *)
(* answer recorded, a next-question call answered and merged, a call       *)
(* refused, leaves it as it is or appends exactly the entry just recorded  *)
(* at its end; no step removes, reorders or rewrites an entry.             *)
C21_HistoryAppendOnly ==
  [][ \/ state'.conversation_history = state.conversation_history
      \/ ExtendsByOneAnswer(state.conversation_history,
                            state'.conversation_history)
    ]_vars

(* two answers are on record, in order, after a response was merged *)
C21_Witness ==
  /\ Answered
  /\ state # prev
  /\ Len(state.conversation_history) = 2
  /\ state.conversation_history[1].questionType = "main"
  /\ state.conversation_history[2].questionType = "followup"
  /\ state.question_type = "main"

(* C22: at most one next-question request is outstanding at any time, and  *)
(* the controls stay disabled for as long as it is.                        *)
C22_OneRequestAtATime ==
  /\ Len(pending) <= 1
  /\ pending # <<>> => isLoadingQuestion

(* a request carrying an answer is in flight after an earlier one returned *)
C22_Witness ==
  /\ Len(pending) = 1
  /\ isLoadingQuestion
  /\ Present(pending[1].last_answer)
  /\ Answered

(* the job description, the resume or the role title is missing or empty *)
LacksContext(ctx) ==
  \/ ~Present(ctx.jobDescription)
  \/ ~Present(ctx.resume)
  \/ ~Present(ctx.roleTitle)

(* C23: a request lacking the job description, the resume or the role      *)
(* title is answered with status 400, the oracle is not called, and no     *)
(* session state is returned or changed; the same holds of every such      *)
(* request that could be made on the current state.                        *)
C23_MissingContextRejected ==
  /\ (req.sent /\ LacksContext(setup)) =>
       /\ resp = BadRequest
       /\ prompt = NoPrompt
       /\ state = prev
  /\ \A ctx \in Contexts, la \in LastAnswers, reply \in Replies :
       LacksContext(ctx) =>
         /\ Post(impl, Body(ctx, state, la), reply, now) = BadRequest
         /\ PromptSent(impl, Body(ctx, state, la)) = NoPrompt

(* a request without a role title was sent and refused *)
C23_Witness ==
  /\ req.sent
  /\ ~Present(setup.roleTitle)
  /\ resp = BadRequest
  /\ prompt = NoPrompt
  /\ state = prev

(* session records that are no InterviewState: a phase or a question type  *)
(* outside the declared values                                             *)
InvalidSessions(s) ==
  { [s EXCEPT !.interview_phase = "paused"],
    [s EXCEPT !.question_type = "bonus"] }

(* C24: a request whose session record is not a valid InterviewState is    *)
(* rejected: no response with status 200 and a computed state is returned  *)
(* for it.                                                                 *)
C24_InvalidSessionRejected ==
  \A s \in InvalidSessions(state), la \in LastAnswers, reply \in Replies :
    Post(impl, Body(GoodContext, s, la), reply, now).status # 200

(* C25: a next-question call does not modify the session object it is     *)
(* given, whatever the oracle replies: the state of the response is        *)
(* another object, and a refused call creates none. While a request is in  *)
(* flight the page's session is the one submitted, and a request that      *)
(* fails leaves the page's session as it was, which is the session the     *)
(* call was made with.                                                     *)
C25_NoPartialEffect ==
  /\ [](\A i \in 1..Len(pending), reply \in Replies :
          LET given == pending[i].state
              body == Body(setup, given, pending[i].last_answer)
              call == nextQuestionIn(impl, <<given>>, 1, body, reply, now)
          IN /\ call.store[1] = given
             /\ call.ref # 1 \/ call.store = <<given>>
             /\ call.ref = 0 <=> Post(impl, body, reply, now).status # 200
             /\ call.ref = 0 => call.store = <<given>>)
  /\ [](pending # <<>> => state = pending[1].state)
  /\ [][ (Len(pending') < Len(pending) /\ resp'.status # 200) =>
           (state' = state /\ state' = prev') ]_vars

(* a request carrying a recorded answer failed; the session still holds    *)
(* the answer and nothing else changed                                     *)
C25_Witness ==
  /\ req.sent
  /\ resp = ServerError
  /\ pending = <<>>
  /\ Present(req.last_answer)
  /\ state = prev
  /\ Len(state.conversation_history) = 1

(* an evaluation request was answered with a report *)
Reported == evalReq.sent /\ evalResp.status = 200

(* the evaluation oracle returned an object *)
ObjectReturned == Reported /\ evalReq.reply.kind = "json"

(* the evaluation oracle threw, or its text held no parseable object *)
EvalOracleFailed ==
  evalReq.sent /\ evalPrompted
    /\ evalReq.reply.kind \in {"throw", "nojson", "badjson", "scalar", "null"}

TranscriptOf(r) ==
  IF r.entry \in {"final", "finalLegacy"} THEN r.body.conversation_history
  ELSE r.body.answers

InRange(v, lo, hi) == v.t = "number" /\ lo <= v.n /\ v.n <= hi

(* a field that is missing or text that is no number *)
NotANumber(v) == v.t = "undefined" \/ v = JStr(<<"high">>)

TextList(v) == v.t = "array" /\ \A i \in 1..Len(v.a) : v.a[i].t = "string"

OnlyText(v) ==
  IF v.t = "array" THEN JList(SelectSeq(v.a, IsText)) ELSE JList(<<>>)

(* C26: every evaluation report has alignment_percentage in [0,100] and    *)
(* the three scores in [0,10], and a field the oracle left out or filled   *)
(* with text that is no number is 0.                                       *)
C26_ScoresWithinRange ==
  /\ Reported =>
       /\ InRange(evalResp.result.alignment_percentage, 0, 100)
       /\ InRange(evalResp.result.technical_score, 0, 10)
       /\ InRange(evalResp.result.problem_solving_score, 0, 10)
       /\ InRange(evalResp.result.communication_score, 0, 10)
  /\ ObjectReturned =>
       /\ NotANumber(evalReq.reply.object.alignment_percentage) =>
            evalResp.result.alignment_percentage = EvNum(0)
       /\ NotANumber(evalReq.reply.object.technical_score) =>
            evalResp.result.technical_score = EvNum(0)
       /\ NotANumber(evalReq.reply.object.problem_solving_score) =>
            evalResp.result.problem_solving_score = EvNum(0)

(* C27: in every evaluation report strengths and weaknesses are lists of   *)
(* text: the oracle's list with its non-text elements removed and the      *)
(* order kept, the empty list when the field is absent or no list.         *)
C27_StrengthsAndWeaknessesAreText ==
  /\ Reported =>
       /\ TextList(evalResp.result.strengths)
       /\ TextList(evalResp.result.weaknesses)
  /\ ObjectReturned =>
       /\ evalResp.result.strengths = OnlyText(evalReq.reply.object.strengths)
       /\ evalResp.result.weaknesses
            = OnlyText(evalReq.reply.object.weaknesses)

(* C28: in every evaluation report final_verdict is Fit, Maybe or Reject,  *)
(* Maybe when the oracle's value is missing or another word, and summary   *)
(* is text, the placeholder when the oracle's value is missing or no text. *)
C28_VerdictAndSummaryDefaults ==
  /\ Reported =>
       /\ evalResp.result.final_verdict \in Verdicts
       /\ evalResp.result.summary.t = "string"
  /\ ObjectReturned =>
       /\ evalResp.result.final_verdict =
            IF evalReq.reply.object.final_verdict \in Verdicts
            THEN evalReq.reply.object.final_verdict ELSE JStr(<<"Maybe">>)
       /\ evalResp.result.summary =
            IF evalReq.reply.object.summary.t = "string"
            THEN evalReq.reply.object.summary
            ELSE JStr(<<"Evaluation completed.">>)

(* the fallback reports of an entry point for a transcript of n answers *)
FallbackReports(entry, n) ==
  CASE entry = "final" -> { getFallbackEvaluation(n) }
    [] entry = "finalLegacy" -> { legacyFallbackEvaluation(n) }
    [] entry = "evaluate" -> { candidateFallbackEvaluation }
    [] entry = "evaluateLegacy" -> getMockEvaluation(evalReq.body.answers)

(* C29: when the evaluation oracle throws or returns text that cannot be   *)
(* parsed, a validated request is answered with status 200 and the entry   *)
(* point's fallback report, never with an error.                           *)
C29_EvaluationFailureFallsBack ==
  EvalOracleFailed =>
    /\ evalResp.status = 200
    /\ evalResp.result
         \in FallbackReports(evalReq.entry, Len(TranscriptOf(evalReq).a))

(* C30: an evaluation request whose transcript is missing or empty is      *)
(* answered with status 400 and the evaluation oracle is not called.       *)
C30_EmptyTranscriptRejected ==
  ( /\ evalReq.sent
    /\ \/ TranscriptOf(evalReq).t # "array"
       \/ TranscriptOf(evalReq).a = <<>> ) =>
    /\ evalResp = BadRequest
    /\ ~evalPrompted
    /\ evalReq.reply = NoEvalReply

(* a final evaluation was requested with every field but an empty          *)
(* conversation_history, and refused                                       *)
C30_Witness ==
  /\ evalReq.sent
  /\ evalReq.entry = "final"
  /\ evalReq.body.jobDescription = JStr(<<"jd">>)
  /\ evalReq.body.resume = JStr(<<"cv">>)
  /\ evalReq.body.conversation_history = JList(<<>>)
  /\ evalResp = BadRequest
  /\ ~evalPrompted

(* ---- C31 ---- *)
(* usable: all five lists are there *)
FiveLists(b) ==
  \A f \in {"key_skills", "skill_gaps", "notable_projects", "focus_areas",
            "suggested_question_themes"} : b[f].t = "array"

ProfileAnswered ==
  profileReq.sent /\ profileReq.entry = "route" /\ profileResp.status # 400

(* the blueprint handed back is a fallback put in place of the oracle's:   *)
(* the request could not be read, the oracle threw, its text held no       *)
(* object, or the object was not a blueprint                               *)
ProfileFailedInside ==
  \/ ~profileReq.body.wellFormed
  \/ profileReq.reply.kind # "json"
  \/ ~FiveLists(profileReq.reply.object)

(* C31: analyzeProfile always answers with a usable blueprint, and its     *)
(* success flag is false exactly when that blueprint is the fallback       *)
(* substituted after an internal failure.                                  *)
C31_SuccessFalseIffFallback ==
  /\ ProfileAnswered =>
       /\ FiveLists(profileResp.blueprint)
       /\ (profileResp.success = FALSE) <=> ProfileFailedInside
  /\ (profileReq.sent /\ profileReq.entry = "lib") =>
       FiveLists(profileResp.blueprint)

(* ---- C32 ---- *)
(* the calls a session may take: max_questions * (1 + max_followups) *)
CallBudget(s) == s.max_questions * (1 + s.max_followups)

(* C32: with an oracle that always returns a question the session ends     *)
(* within bounds: no more main questions are issued than max_questions     *)
(* (each one issued moves current_question_index on by one), and every     *)
(* call that found the session not yet completed is among the first        *)
(* max_questions * (1 + max_followups).                                    *)
C32_TerminatesWithinBounds ==
  /\ state.current_question_index <= state.max_questions
  /\ (Answered /\ prev.interview_phase # "completed") =>
        calls <= CallBudget(state)

(* ---- C33 ---- *)
(* a response arrives that ends the interview: finishInterview runs *)
FinishedNow ==
  /\ Len(pending') < Len(pending)
  /\ resp'.status = 200
  /\ resp'.interview_complete

(* C33: when a response with interview_complete = true makes the page      *)
(* finish the interview, the transcript it stores is the                   *)
(* conversation_history of the latest session state, the answer sent with  *)
(* that last request included (a page that has stored nothing counts as    *)
(* having stored the empty transcript).                                    *)
C33_StoredTranscriptIsLatest ==
  [][FinishedNow => stored'.answers = state'.conversation_history]_vars

(* ---- C34 ---- *)
(* the holder of a session records an answer in this step *)
RecordedNow ==
  /\ state # NoSession
  /\ Len(state'.conversation_history) = Len(state.conversation_history) + 1

LastEntry(s) == s.conversation_history[Len(s.conversation_history)]

(* C34: in every client session state no two conversation_history entries  *)
(* carry the same questionId (an entry recorded without an id carries      *)
(* none), and each answer is recorded under the id the response gave to    *)
(* the question that was on screen.                                        *)
C34_DistinctQuestionIds ==
  /\ [](\A i, j \in 1..(IF state = NoSession THEN 0
                           ELSE Len(state.conversation_history)) :
          (i # j /\ TruthyId(state.conversation_history[i].questionId)) =>
             state.conversation_history[i].questionId
               # state.conversation_history[j].questionId)
  /\ [][RecordedNow => LastEntry(state').questionId = asked.id]_vars

(* ---- C35 ---- *)
(* r is s with exactly one entry more at the end of conversation_history   *)
(* and every other field as in s                                           *)
OnlyAppended(s, r) ==
  /\ Len(r.conversation_history) = Len(s.conversation_history) + 1
  /\ SubSeq(r.conversation_history, 1, Len(s.conversation_history))
       = s.conversation_history
  /\ r.current_question_index = s.current_question_index
  /\ r.question_type = s.question_type
  /\ r.followup_count = s.followup_count
  /\ r.max_questions = s.max_questions
  /\ r.max_followups = s.max_followups
  /\ r.interview_phase = s.interview_phase
  /\ r.current_question_id = s.current_question_id

(* the question ids a caller may pass: none, the empty one, the session's, *)
(* one of its own                                                          *)
GivenIds == { UndefId, EmptyId, state.current_question_id,
              MintId("main", 1, now) }

(* call is a recording made on the session object in cell 1 of a store:   *)
(* the object given is as it was, and the object returned is another one,  *)
(* with exactly one entry more                                             *)
RecordedApart(given, call) ==
  /\ call.ref # 1
  /\ call.store[1] = given
  /\ Len(call.store) = 2
  /\ OnlyAppended(given, call.store[call.ref])

(* C35: recording an answer (recordAnswer, addAnswerToState) on any        *)
(* session a caller can hold appends exactly one entry at the end of       *)
(* conversation_history and leaves the counters, the type, the limits, the *)
(* phase and current_question_id as they were; the session object given is *)
(* not modified, the result is another object; and every step in which a   *)
(* caller's history grows changes nothing else of the session.             *)
C35_RecordingOnlyAppends ==
  /\ [](\A a \in Answers, id \in GivenIds :
          /\ RecordedApart(state,
                addAnswerToStateIn(<<state>>, 1, <<"Q">>, a, id, now))
          /\ RecordedApart(state,
                recordAnswerIn(<<state>>, 1, <<"Q">>, a, id, now)))
  /\ [][RecordedNow => OnlyAppended(state, state')]_vars

(* the answer to a follow-up has just been recorded after the answer to    *)
(* its main question                                                       *)
C35_Witness ==
  /\ ~req.sent
  /\ Len(state.conversation_history) = 2
  /\ LastEntry(state).questionType = "followup"
  /\ state.conversation_history[1].questionType = "main"
  /\ state.followup_count = 1
  /\ state.interview_phase = "in_progress"

(* ---- C36 ---- *)
(* C36: a recorded entry carries mainQuestionIndex exactly when the        *)
(* question it answers, the one on screen when it was recorded, was        *)
(* delivered as a follow-up, and then it is the current_question_index of  *)
(* the main question the follow-up belongs to; an entry answering a main   *)
(* question carries none.                                                  *)
C36_BackReferenceIffFollowUp ==
  [][ RecordedNow =>
        /\ (LastEntry(state').mainQuestionIndex # NoIndex)
             <=> (asked.type = "followup")
        /\ asked.type = "followup" =>
             /\ LastEntry(state').mainQuestionIndex = asked.id.index
             /\ LastEntry(state').mainQuestionIndex
                  = state.current_question_index
    ]_vars

(* ---- C37 ---- *)
(* two responses tell the caller the same: status, and for an accepted     *)
(* call the counters, the type, the phase, whether there is a question,    *)
(* and interview_complete                                                  *)
SameOutcome(a, b) ==
  /\ a.status = b.status
  /\ a.status = 200 =>
       /\ a.updated_state.current_question_index
            = b.updated_state.current_question_index
       /\ a.updated_state.followup_count = b.updated_state.followup_count
       /\ a.updated_state.question_type = b.updated_state.question_type
       /\ a.updated_state.interview_phase = b.updated_state.interview_phase
       /\ Truthy(a.question) = Truthy(b.question)
       /\ a.interview_complete = b.interview_complete

(* C37: nextQuestionAI with applyStateTransition and the route-local       *)
(* generateNextQuestion are equivalent: whatever call was made, with       *)
(* whatever session, last answer and oracle outcome, the two routes answer *)
(* it with the same counters, question_type, phase, question presence and  *)
(* interview_complete.                                                     *)
C37_ImplementationsAgree ==
  req.sent =>
    SameOutcome(PostLib(Body(setup, prev, req.last_answer), req.reply, now),
                PostRoute(Body(setup, prev, req.last_answer), req.reply, now))

====
